---- MODULE Spec2Model ----
(***************************************************************************)
(* Model of gmanim's block-batched frame delivery pipeline:                *)
(* VideoBackendController (src/video_backend/mod.rs, lines 303-370), its   *)
(* background worker thread, the shared block queue, the mpsc channel of   *)
(* FrameMessage values and the VideoBackend the worker writes to.          *)
(*                                                                         *)
(* Two threads take part: the producer (the caller of write_frame, end,    *)
(* or the drop of the controller) and the worker closure spawned by new.   *)
(* Each action is one atomic step of one thread; a method that crosses a   *)
(* synchronisation point (the queue mutex, the channel, the join) is split *)
(* at those points and the thread's position is kept in ppc / wpc.         *)
(*                                                                         *)
(* A frame is an opaque Vec<u8> that the pipeline moves and never          *)
(* inspects; a frame is modelled by the index of the write_frame call      *)
(* that submitted it, which keeps two frames of equal bytes apart.         *)
(***************************************************************************)
EXTENDS Naturals, Sequences, FiniteSets

\* Capacity of a block. The source sets BLOCK_SIZE = 240 (mod.rs line 8);
\* the model scales it down, every rule that reads it reads this name.
BLOCK_SIZE == 2

\* Number of write_frame calls explored.
MaxFrames == 9

\* Number of Sink writes that may fail in one run.
MaxWriteErrors == 2

\* Number of frames pushed on the queue of write_frame_background.
MaxBgFrames == 4

VARIABLES
    submitted,     \* history: the frames passed to write_frame, in call order
    block,         \* VideoBackendController.block: the open block
    block_queue,   \* VideoBackendController.block_queue: the sealed blocks
    queue_lock,    \* holder of the block_queue mutex: "free", "producer", "worker"
    chan,          \* messages sent on `sender` and not yet received
    ppc,           \* producer position
    wpc,           \* worker position
    wexit,         \* why the worker left its loop ("" while it runs)
    frame_list,    \* worker: the frames of the popped block not yet written
    sink,          \* history: the frames passed to VideoBackend::write_frame
    write_errors,  \* history: the frames whose write_all returned Err
    enqueued,      \* history: number of push_back calls on block_queue
    sent_frames,   \* history: number of FrameMessage::Frame sends
    wakes,         \* history: Frame sends that found the worker blocked on recv
    join_result,   \* what JoinHandle::join returned in end ("" before it returns)
    end_result,    \* what end() handed to its caller ("" before it returns)
    finished,      \* history: number of finish() calls made on the Sink
    \* VideoBackend::write_frame_background (mod.rs 151-187) and its producer
    bsubmitted,    \* history: the frames pushed on `queue`, in push order
    bq,            \* `queue`: the frames waiting to be written
    bchan,         \* messages sent to `rx` and not yet received
    bstate,        \* `state`: the shared VideoBackendState
    bppc,          \* position of the producer feeding the queue
    bpc,           \* position of write_frame_background
    bexit,         \* why write_frame_background left its loop ("" while it runs)
    bdata,         \* `data`: the frame popped and not yet written
    bsink,         \* history: the frames passed to self.write_frame
    bstale         \* history: Frame messages received while the queue was empty

vars == <<submitted, block, block_queue, queue_lock, chan, ppc, wpc, wexit,
          frame_list, sink, write_errors, enqueued, sent_frames, wakes,
          join_result, end_result, finished,
          bsubmitted, bq, bchan, bstate, bppc, bpc, bexit, bdata, bsink, bstale>>

prodVars == <<submitted, block, ppc, enqueued, sent_frames, wakes>>
workVars == <<wpc, wexit, frame_list, sink, write_errors>>
endVars == <<join_result, end_result, finished>>
bgVars == <<bsubmitted, bq, bchan, bstate, bppc, bpc, bexit, bdata, bsink, bstale>>
ctlVars == <<submitted, block, block_queue, queue_lock, chan, ppc, wpc, wexit,
             frame_list, sink, write_errors, enqueued, sent_frames, wakes,
             join_result, end_result, finished>>

----------------------------------------------------------------------------
\* Helpers

RECURSIVE Flatten(_)
Flatten(q) == IF q = <<>> THEN <<>> ELSE Head(q) \o Flatten(Tail(q))

IsPrefix(s, t) == Len(s) <= Len(t) /\ SubSeq(t, 1, Len(s)) = s

NoDuplicates(s) == \A i, j \in 1..Len(s) : i # j => s[i] # s[j]

----------------------------------------------------------------------------
\* The pieces of the code the actions are built from

\* mod.rs 358: the open block is sealed when its length equals BLOCK_SIZE.
SealNeededOffByOne(b) == Len(b) >= BLOCK_SIZE - 1
SealNeeded(b) == Len(b) = BLOCK_SIZE

\* mod.rs 359-362: VecDeque::push_back of the sealed block.
PushFront(q, b) == <<b>> \o q
PushBack(q, b) == Append(q, b)

\* mod.rs 336: VecDeque::pop_front on a non-empty queue.
PopBack(q) == [item |-> q[Len(q)], rest |-> SubSeq(q, 1, Len(q) - 1)]
PeekFront(q) == [item |-> Head(q), rest |-> q]
PopFront(q) == [item |-> Head(q), rest |-> Tail(q)]

\* Sender::send: the message joins the channel's FIFO; once the receiver is
\* gone (the worker closure has returned) send returns Err, which both call
\* sites ignore, and the message is discarded.
Send(c, m) == IF wpc = "exited" THEN c ELSE Append(c, m)

RECURSIVE SendAll(_, _)
SendAll(c, ms) == IF ms = <<>> THEN c ELSE SendAll(Send(c, Head(ms)), Tail(ms))

\* mod.rs 363: what write_frame sends after the push_back of a sealed block:
\* one FrameMessage::Frame.
WakeMessagesNone == <<>>
WakeMessagesTwice == <<"Frame", "Frame">>
WakeMessages == <<"Frame">>

\* mod.rs 333-335: the worker's reaction to a received message.
OnMessageIgnoreEnd(m) == IF m = "End" THEN "recv" ELSE "pop_lock"
OnMessage(m) == IF m = "End" THEN "exited" ELSE "pop_lock"

\* mod.rs 336-341: the MutexGuard of block_queue is a temporary of the `let`
\* statement and is dropped at its end ("statement"); a guard bound to a
\* variable of the loop body would live until the end of the iteration.
QueueGuardScopeIteration == "iteration"
QueueGuardScope == "statement"

\* mod.rs 138-150, 343-345: VideoBackend::write_frame returns () and drops the
\* io::Result of write_all, so the for loop goes on whatever the outcome.
AfterWriteStopOnError(ok, rest) ==
    IF ~ok THEN "exited" ELSE IF rest = <<>> THEN "recv" ELSE "write"
AfterWrite(ok, rest) == IF rest = <<>> THEN "recv" ELSE "write"

\* mod.rs 368: JoinHandle::join returns Err when the closure panicked.
JoinResult == IF wexit = "Panicked" THEN "Err" ELSE "Ok"

\* mod.rs 366-369: `pub fn end(self)` has no return type and the Result of
\* join is dropped: the caller gets () whatever join returned.
EndReturn(r) == "unit"

\* mod.rs 366-369: the number of calls of finish() that end makes on the
\* backend it owns: none. (impl VideoBackend, mod.rs 137-188, has no finish;
\* FfmpegBackend::finish, ffmpeg.rs 136-140, has no caller in the controller.)
EndFinishCalls == 0

\* mod.rs 161-163: queue_guard.pop_front() on a non-empty queue.
BgPopBack(q) == [item |-> q[Len(q)], rest |-> SubSeq(q, 1, Len(q) - 1)]
BgPopFront(q) == [item |-> Head(q), rest |-> Tail(q)]

\* mod.rs 170-181: write_frame_background's reaction to a received message:
\* Frame falls out of the match and the loop starts over, End breaks.
BgOnMessageStale(m) == IF m = "End" \/ bq = <<>> THEN "exited" ELSE "pop"
BgOnMessage(m) == IF m = "End" THEN "exited" ELSE "pop"

\* mod.rs 171-173: the arm `FrameMessage::Frame => {}` is empty: the state
\* flag keeps the value it had when the message arrived.
BgStateOnWake(st) == st

\* Sender::send towards write_frame_background's `rx`.
BgSend(c, m) == IF bpc = "exited" THEN c ELSE Append(c, m)

\* End of a loop iteration: every guard of the iteration is dropped.
IterationEndLock == IF queue_lock = "worker" THEN "free" ELSE queue_lock

----------------------------------------------------------------------------
\* write_frame_background is entered with an empty queue and channel; the
\* state flag is made by its caller, Running at the start (spec, Worker Loop).
BgInit ==
    /\ bsubmitted = <<>>
    /\ bq = <<>>
    /\ bchan = <<>>
    /\ bstate = "Running"
    /\ bppc = "idle"
    /\ bpc = "pop"
    /\ bexit = ""
    /\ bdata = <<>>
    /\ bsink = <<>>
    /\ bstale = 0

Init ==
    /\ submitted = <<>>
    /\ block = <<>>
    /\ block_queue = <<>>
    /\ queue_lock = "free"
    /\ chan = <<>>
    /\ ppc = "idle"
    /\ wpc = "recv"
    /\ wexit = ""
    /\ frame_list = <<>>
    /\ sink = <<>>
    /\ write_errors = {}
    /\ enqueued = 0
    /\ sent_frames = 0
    /\ wakes = 0
    /\ join_result = ""
    /\ end_result = ""
    /\ finished = 0
    /\ BgInit

----------------------------------------------------------------------------
\* Producer: VideoBackendController::write_frame (mod.rs 356-365)

\* 357-358: push the frame on the open block and test its length.
WriteFrame ==
    /\ ppc = "idle"
    /\ Len(submitted) < MaxFrames
    /\ LET f == Len(submitted) + 1
           b == Append(block, f)
       IN /\ submitted' = Append(submitted, f)
          /\ block' = b
          /\ ppc' = IF SealNeeded(b) THEN "seal_lock" ELSE "idle"
    /\ UNCHANGED <<block_queue, queue_lock, chan, enqueued, sent_frames, wakes>>
    /\ UNCHANGED workVars
    /\ UNCHANGED endVars
    /\ UNCHANGED bgVars

\* 359-360: block_queue.lock()
PLock ==
    /\ ppc = "seal_lock"
    /\ queue_lock = "free"
    /\ queue_lock' = "producer"
    /\ ppc' = "seal_push"
    /\ UNCHANGED <<submitted, block, block_queue, chan, enqueued, sent_frames, wakes>>
    /\ UNCHANGED workVars
    /\ UNCHANGED endVars
    /\ UNCHANGED bgVars

\* 362: push_back(self.block.replace(Vec::new())), the guard dropped after it.
PPush ==
    /\ ppc = "seal_push"
    /\ block_queue' = PushBack(block_queue, block)
    /\ block' = <<>>
    /\ enqueued' = enqueued + 1
    /\ queue_lock' = "free"
    /\ ppc' = "seal_send"
    /\ UNCHANGED <<submitted, chan, sent_frames, wakes>>
    /\ UNCHANGED workVars
    /\ UNCHANGED endVars
    /\ UNCHANGED bgVars

\* 363: self.sender.send(FrameMessage::Frame)
PSend ==
    /\ ppc = "seal_send"
    /\ chan' = SendAll(chan, WakeMessages)
    /\ sent_frames' = sent_frames + Len(WakeMessages)
    /\ wakes' = IF wpc = "recv" /\ chan = <<>> /\ WakeMessages # <<>>
                THEN wakes + 1 ELSE wakes
    /\ ppc' = "idle"
    /\ UNCHANGED <<submitted, block, block_queue, queue_lock, enqueued>>
    /\ UNCHANGED workVars
    /\ UNCHANGED endVars
    /\ UNCHANGED bgVars

\* VideoBackendController::end (mod.rs 366-369), line 367: send End.
End ==
    /\ ppc = "idle"
    /\ chan' = Send(chan, "End")
    /\ ppc' = "end_join"
    /\ UNCHANGED <<submitted, block, block_queue, queue_lock, enqueued,
                   sent_frames, wakes>>
    /\ UNCHANGED workVars
    /\ UNCHANGED endVars
    /\ UNCHANGED bgVars

\* line 368: background_thread_handler.join() returns once the closure has.
JoinNoWait ==
    /\ ppc = "end_join"
    /\ ppc' = "ended"
    /\ join_result' = JoinResult
    /\ end_result' = EndReturn(JoinResult)
    /\ finished' = finished + EndFinishCalls
    /\ UNCHANGED <<submitted, block, block_queue, queue_lock, chan, enqueued,
                   sent_frames, wakes>>
    /\ UNCHANGED workVars
    /\ UNCHANGED bgVars

Join ==
    /\ ppc = "end_join"
    /\ wpc = "exited"
    /\ ppc' = "ended"
    /\ join_result' = JoinResult
    /\ end_result' = EndReturn(JoinResult)
    /\ finished' = finished + EndFinishCalls
    /\ UNCHANGED <<submitted, block, block_queue, queue_lock, chan, enqueued,
                   sent_frames, wakes>>
    /\ UNCHANGED workVars
    /\ UNCHANGED bgVars

\* The controller goes out of scope without end(): its fields (mod.rs 303-310)
\* are dropped, the Sender with them, and the JoinHandle detaches the thread.
Drop ==
    /\ ppc = "idle"
    /\ ppc' = "dropped"
    /\ UNCHANGED <<submitted, block, block_queue, queue_lock, chan, enqueued,
                   sent_frames, wakes>>
    /\ UNCHANGED workVars
    /\ UNCHANGED endVars
    /\ UNCHANGED bgVars

----------------------------------------------------------------------------
\* Worker: the closure of VideoBackendController::new (mod.rs 324-347)

\* 328-335: recv returns a message.
WRecv ==
    /\ wpc = "recv"
    /\ chan # <<>>
    /\ chan' = Tail(chan)
    /\ wpc' = OnMessage(Head(chan))
    /\ wexit' = IF wpc' = "exited" THEN "End" ELSE wexit
    /\ UNCHANGED <<frame_list, sink, write_errors, block_queue, queue_lock>>
    /\ UNCHANGED prodVars
    /\ UNCHANGED endVars
    /\ UNCHANGED bgVars

\* 328-331: recv returns Err: the channel is empty and its Sender is dropped.
WRecvErrRetry ==
    /\ wpc = "recv"
    /\ chan = <<>>
    /\ ppc = "dropped"
    /\ UNCHANGED vars

WRecvErr ==
    /\ wpc = "recv"
    /\ chan = <<>>
    /\ ppc = "dropped"
    /\ wpc' = "exited"
    /\ wexit' = "Disconnected"
    /\ UNCHANGED <<frame_list, sink, write_errors, block_queue, queue_lock, chan>>
    /\ UNCHANGED prodVars
    /\ UNCHANGED endVars
    /\ UNCHANGED bgVars

\* 336: block_queue.lock()
WLock ==
    /\ wpc = "pop_lock"
    /\ queue_lock = "free"
    /\ queue_lock' = "worker"
    /\ wpc' = "pop"
    /\ UNCHANGED <<wexit, frame_list, sink, write_errors, block_queue, chan>>
    /\ UNCHANGED prodVars
    /\ UNCHANGED endVars
    /\ UNCHANGED bgVars

\* 336-342: pop_front; None leaves the loop, Some(f) starts the for loop.
WPop ==
    /\ wpc = "pop"
    /\ IF block_queue = <<>>
       THEN /\ wpc' = "exited"
            /\ wexit' = "Empty"
            /\ queue_lock' = "free"
            /\ UNCHANGED <<block_queue, frame_list>>
       ELSE LET p == PopFront(block_queue)
            IN /\ block_queue' = p.rest
               /\ frame_list' = p.item
               /\ wpc' = IF p.item = <<>> THEN "recv" ELSE "write"
               /\ queue_lock' = IF QueueGuardScope = "statement" \/ p.item = <<>>
                                THEN "free" ELSE "worker"
               /\ wexit' = wexit
    /\ UNCHANGED <<sink, write_errors, chan>>
    /\ UNCHANGED prodVars
    /\ UNCHANGED endVars
    /\ UNCHANGED bgVars

\* 343-345: one turn of `for f in frame_list`: video_baackend.write_frame(&f).
WWrite ==
    /\ wpc = "write"
    /\ \E ok \in BOOLEAN :
         /\ ok \/ Cardinality(write_errors) < MaxWriteErrors
         /\ LET f == Head(frame_list)
                rest == Tail(frame_list)
            IN /\ sink' = Append(sink, f)
               /\ write_errors' = IF ok THEN write_errors ELSE write_errors \cup {f}
               /\ wpc' = AfterWrite(ok, rest)
               /\ frame_list' = IF wpc' = "exited" THEN frame_list ELSE rest
               /\ wexit' = IF wpc' = "exited" THEN "WriteError" ELSE wexit
               /\ queue_lock' = IF wpc' = "write" THEN queue_lock ELSE IterationEndLock
    /\ UNCHANGED <<block_queue, chan>>
    /\ UNCHANGED prodVars
    /\ UNCHANGED endVars
    /\ UNCHANGED bgVars

----------------------------------------------------------------------------
\* The producer that feeds write_frame_background. Its code is not in the
\* source; it follows the protocol of the specification (Batch Queue + Wake
\* Signal): every enqueue is followed by one wake, End is sent last.

\* enqueue(frame): push_back under the queue mutex.
BgEnqueue ==
    /\ bppc = "idle"
    /\ Len(bsubmitted) < MaxBgFrames
    /\ LET f == Len(bsubmitted) + 1
       IN /\ bsubmitted' = Append(bsubmitted, f)
          /\ bq' = Append(bq, f)
    /\ bppc' = "wake"
    /\ UNCHANGED <<bchan, bstate, bpc, bexit, bdata, bsink, bstale>>
    /\ UNCHANGED ctlVars

\* the wake notification of that enqueue.
BgWake ==
    /\ bppc = "wake"
    /\ bchan' = BgSend(bchan, "Frame")
    /\ bppc' = "idle"
    /\ UNCHANGED <<bsubmitted, bq, bstate, bpc, bexit, bdata, bsink, bstale>>
    /\ UNCHANGED ctlVars

\* termination: the distinguished End value, sent last.
BgEnd ==
    /\ bppc = "idle"
    /\ bchan' = BgSend(bchan, "End")
    /\ bppc' = "ended"
    /\ UNCHANGED <<bsubmitted, bq, bstate, bpc, bexit, bdata, bsink, bstale>>
    /\ UNCHANGED ctlVars

\* the Sender is dropped without End.
BgDrop ==
    /\ bppc = "idle"
    /\ bppc' = "dropped"
    /\ UNCHANGED <<bsubmitted, bq, bchan, bstate, bpc, bexit, bdata, bsink, bstale>>
    /\ UNCHANGED ctlVars

----------------------------------------------------------------------------
\* VideoBackend::write_frame_background (mod.rs 151-187)

\* 159-163: data = queue.lock().pop_front(), the guard dropped with its block.
BPop ==
    /\ bpc = "pop"
    /\ IF bq = <<>>
       THEN /\ bdata' = <<>>
            /\ bpc' = "sleep"
            /\ bq' = bq
       ELSE LET p == BgPopFront(bq)
            IN /\ bdata' = <<p.item>>
               /\ bq' = p.rest
               /\ bpc' = "write"
    /\ UNCHANGED <<bsubmitted, bchan, bstate, bppc, bexit, bsink, bstale>>
    /\ UNCHANGED ctlVars

\* 164-169: data.is_none(): *state_guard = VideoBackendState::Sleeping.
BSleep ==
    /\ bpc = "sleep"
    /\ bstate' = "Sleeping"
    /\ bpc' = "recv"
    /\ UNCHANGED <<bsubmitted, bq, bchan, bppc, bexit, bdata, bsink, bstale>>
    /\ UNCHANGED ctlVars

\* 170-176: rx.recv() returns Ok(f).
BRecv ==
    /\ bpc = "recv"
    /\ bchan # <<>>
    /\ bchan' = Tail(bchan)
    /\ bpc' = BgOnMessage(Head(bchan))
    /\ bexit' = IF bpc' = "exited"
                THEN (IF Head(bchan) = "End" THEN "End" ELSE "StaleWake")
                ELSE bexit
    /\ bstate' = IF Head(bchan) = "Frame" THEN BgStateOnWake(bstate) ELSE bstate
    /\ bstale' = IF Head(bchan) = "Frame" /\ bq = <<>> THEN bstale + 1 ELSE bstale
    /\ UNCHANGED <<bsubmitted, bq, bppc, bdata, bsink>>
    /\ UNCHANGED ctlVars

\* 177-180: rx.recv() returns Err: channel empty and every Sender dropped.
BRecvErr ==
    /\ bpc = "recv"
    /\ bchan = <<>>
    /\ bppc = "dropped"
    /\ bpc' = "exited"
    /\ bexit' = "Disconnected"
    /\ UNCHANGED <<bsubmitted, bq, bchan, bstate, bppc, bdata, bsink, bstale>>
    /\ UNCHANGED ctlVars

\* 182-184: self.write_frame(&data.unwrap()).
BWrite ==
    /\ bpc = "write"
    /\ bsink' = Append(bsink, Head(bdata))
    /\ bdata' = <<>>
    /\ bpc' = "pop"
    /\ UNCHANGED <<bsubmitted, bq, bchan, bstate, bppc, bexit, bstale>>
    /\ UNCHANGED ctlVars

----------------------------------------------------------------------------
\* The worker closure panics inside the Sink write (a fault of the backend it
\* calls): the closure unwinds, and join on its handle returns Err.
WPanic ==
    /\ wpc = "write"
    /\ wpc' = "exited"
    /\ wexit' = "Panicked"
    /\ queue_lock' = IterationEndLock
    /\ UNCHANGED <<frame_list, sink, write_errors, block_queue, chan>>
    /\ UNCHANGED prodVars
    /\ UNCHANGED endVars
    /\ UNCHANGED bgVars

----------------------------------------------------------------------------
Producer == WriteFrame \/ PLock \/ PPush \/ PSend \/ End \/ Join \/ Drop
Worker == WRecv \/ WRecvErr \/ WLock \/ WPop \/ WWrite

Next ==
    \/ WriteFrame
    \/ PLock
    \/ PPush
    \/ PSend
    \/ End
    \/ Join
    \/ Drop
    \/ WRecv
    \/ WRecvErr
    \/ WLock
    \/ WPop
    \/ WWrite

Spec == Init /\ [][Next]_vars

\* The worker is a running thread and each Sink write returns; a write_frame
\* or end call that has started runs to its end. Whether the producer starts
\* another write_frame, calls end or drops the controller is left open.
FairSpec ==
    /\ Spec
    /\ WF_vars(Worker)
    /\ WF_vars(PLock \/ PPush \/ PSend \/ Join)

\* write_frame_background and its producer.
BgWorker == BPop \/ BSleep \/ BRecv \/ BRecvErr \/ BWrite

BgNext ==
    \/ BgEnqueue
    \/ BgWake
    \/ BgEnd
    \/ BgDrop
    \/ BPop
    \/ BSleep
    \/ BRecv
    \/ BRecvErr
    \/ BWrite

BgSpec == Init /\ [][BgNext]_vars

\* The controller with a worker that may panic in a Sink write.
PanicNext ==
    \/ WriteFrame
    \/ PLock
    \/ PPush
    \/ PSend
    \/ End
    \/ Join
    \/ Drop
    \/ WRecv
    \/ WRecvErr
    \/ WLock
    \/ WPop
    \/ WWrite
    \/ WPanic

PanicSpec == Init /\ [][PanicNext]_vars

----------------------------------------------------------------------------
\* Derived quantities used by the properties

MaxBatches == MaxFrames \div BLOCK_SIZE

\* The first n submitted frames are the first n frames passed to the Sink.
WrittenUpTo(n) ==
    /\ n <= Len(sink)
    /\ n <= Len(submitted)
    /\ \A k \in 1..n : sink[k] = submitted[k]

\* The Sink was passed exactly the first n submitted frames, in order.
WrittenExactly(n) == Len(sink) = n /\ WrittenUpTo(n)

\* The last n submitted frames.
LastSubmitted(n) == SubSeq(submitted, Len(submitted) - n + 1, Len(submitted))

\* The worker is blocked in recv and there is nothing for it to do.
Sleeping == wpc = "recv" /\ chan = <<>> /\ block_queue = <<>>

----------------------------------------------------------------------------
\* C1 - Order preservation: in every reachable state the frames the worker
\* has passed to the Sink are a prefix of the submitted frames, in submission
\* order, within a block and across blocks.
C1_OrderPreserved == IsPrefix(sink, submitted)

\* Frames of three blocks have been written: two block boundaries crossed.
C1_Witness == Len(sink) = 3 * BLOCK_SIZE /\ wpc = "recv"

\* C2 - No loss on clean shutdown: when end() has returned, the Sink has
\* received every submitted frame, the trailing partial block included.
C2_NoLossOnShutdown == ppc = "ended" => sink = submitted

\* C3 - Shutdown drains sealed work: when end() has returned every block
\* enqueued by write_frame has been written in full and the queue is empty;
\* and when the worker has left its loop on End, the queue is empty.
C3_ShutdownDrains ==
    /\ ppc = "ended" =>
         /\ block_queue = <<>>
         /\ frame_list = <<>>
         /\ WrittenExactly(enqueued * BLOCK_SIZE)
    /\ wexit = "End" => block_queue = <<>> /\ chan = <<>>

\* end() has returned after two blocks were sealed.
C3_Witness == ppc = "ended" /\ wexit = "End" /\ enqueued = 2

\* C4 - No double delivery: no frame is passed to the Sink twice.
C4_NoDoubleDelivery == NoDuplicates(sink)

\* Every block of a run of three has been delivered and the run is over.
C4_Witness == ppc = "ended" /\ Len(sink) = 3 * BLOCK_SIZE /\ block # <<>>

\* C5 - Shutdown terminates: once end() has sent End, it returns, with the
\* worker thread exited, whatever was submitted before (nothing included).
C5_ShutdownTerminates ==
    (ppc = "end_join") ~> (ppc = "ended" /\ wpc = "exited")

\* end() has returned on a controller that was given no frame.
C5_Witness == ppc = "ended" /\ wpc = "exited" /\ submitted = <<>>

\* C6 - Sleep/wake: if the worker is blocked on recv with the queue empty
\* while a write_frame call is about to enqueue the (i+1)-th block, then all
\* frames of that block are eventually written to the Sink, with no further
\* write_frame or end call needed (FairSpec makes no producer call start).
C6_SleepWake ==
    \A i \in 0..(MaxBatches - 1) :
        (Sleeping /\ ppc = "seal_lock" /\ enqueued = i)
            ~> WrittenUpTo((i + 1) * BLOCK_SIZE)

\* Twice a send found the worker asleep, and both blocks were then drained
\* while the producer did nothing more than finish its send.
C6_Witness ==
    /\ wakes = 2
    /\ Len(submitted) = 2 * BLOCK_SIZE
    /\ sink = submitted
    /\ ppc = "idle"

\* C7 - Batch sealing: a block is sealed exactly when a write_frame call
\* brings it to BLOCK_SIZE. Every queued block has length BLOCK_SIZE, the
\* open block is shorter whenever no write_frame call is in progress, the
\* queue followed by the open block holds the latest submitted frames in
\* order, nothing is enqueued by the first BLOCK_SIZE - 1 calls, and after
\* the BLOCK_SIZE-th call the queue holds exactly F1..FN and the open block
\* is empty.
C7_BatchSealing ==
    /\ \A i \in 1..Len(block_queue) : Len(block_queue[i]) = BLOCK_SIZE
    /\ ppc \notin {"seal_lock", "seal_push"} => Len(block) < BLOCK_SIZE
    /\ ppc \in {"seal_lock", "seal_push"} => Len(block) = BLOCK_SIZE
    /\ ppc = "idle" =>
         /\ enqueued = Len(submitted) \div BLOCK_SIZE
         /\ Len(block) = Len(submitted) % BLOCK_SIZE
    /\ LET held == Flatten(block_queue) \o block
       IN /\ Len(held) <= Len(submitted)
          /\ held = LastSubmitted(Len(held))
    /\ Len(submitted) < BLOCK_SIZE => enqueued = 0 /\ block_queue = <<>>
    /\ (Len(submitted) = BLOCK_SIZE /\ ppc = "idle" /\ sink = <<>> /\ frame_list = <<>>)
         => block_queue = <<submitted>> /\ block = <<>>

\* The BLOCK_SIZE-th call has returned and the worker has not popped yet.
C7_Witness ==
    /\ Len(submitted) = BLOCK_SIZE
    /\ ppc = "idle"
    /\ block_queue = <<submitted>>
    /\ block = <<>>

\* C8 - One wake per enqueue: the number of Frame messages sent equals the
\* number of blocks enqueued, except between a push_back and its send, where
\* it is one less.
C8_OneWakePerEnqueue ==
    IF ppc = "seal_send" THEN sent_frames + 1 = enqueued
                         ELSE sent_frames = enqueued

\* The second block has been pushed and its Frame message is not sent yet.
C8_Witness == ppc = "seal_send" /\ enqueued = 2 /\ sent_frames = 1

\* C9 - write_frame never waits on the worker or on queue space: a call can
\* start whatever the queue holds, its push and send are always possible, the
\* mutex it needs is held by the worker only at the pop_front and never while
\* the worker writes, so the lock is free to it whenever the worker is not at
\* that one statement.
C9_WriteFrameNeverWaits ==
    /\ wpc = "write" => queue_lock # "worker"
    /\ queue_lock = "worker" => wpc = "pop"
    /\ (ppc = "seal_lock" /\ wpc # "pop") => ENABLED PLock
    /\ (ppc = "idle" /\ Len(submitted) < MaxFrames) => ENABLED WriteFrame
    /\ ppc = "seal_push" => ENABLED PPush
    /\ ppc = "seal_send" => ENABLED PSend

\* The Sink is stalled on the very first frame; the queue already holds a
\* block and the producer holds the mutex to push one more.
C9_Witness ==
    /\ wpc = "write"
    /\ sink = <<>>
    /\ Len(block_queue) >= 1
    /\ ppc = "seal_push"
    /\ queue_lock = "producer"

\* C10 - Sink write failure is absorbed: after a failed write the worker
\* never leaves its loop because of it, every enqueued block is still passed
\* to the Sink in full, and end() returns as in a run without failure.
C10_WriteFailureAbsorbed ==
    /\ [](write_errors # {} =>
            /\ wexit \in {"", "End", "Disconnected"}
            /\ (ppc = "ended" => WrittenExactly(enqueued * BLOCK_SIZE)))
    /\ \A i \in 1..MaxBatches :
         (write_errors # {} /\ sent_frames >= i)
             ~> WrittenUpTo(i * BLOCK_SIZE)
    /\ (write_errors # {} /\ ppc = "end_join") ~> (ppc = "ended")

\* The first frame's write failed, and the rest of its block and two more
\* blocks were written after it; end() has returned.
C10_Witness ==
    /\ write_errors = {1}
    /\ ppc = "ended"
    /\ Len(sink) = 3 * BLOCK_SIZE

\* C11 - Thread-join failure is surfaced: when end() has returned and the
\* join of the worker thread failed, end() has reported a failure to its
\* caller.
C11_JoinFailureSurfaced ==
    (ppc = "ended" /\ join_result = "Err") => end_result = "Err"

\* C12 - Sink finalization: finish() is called on the Sink exactly once in a
\* session, after the worker has drained and terminated and never during a
\* Sink write: none before end() returns, one when it has returned.
C12_FinishOnce ==
    /\ ppc # "ended" => finished = 0
    /\ ppc = "ended" => finished = 1
    /\ wpc = "write" => finished = 0

\* C13 - Exact result of shutdown: when end() has returned after k calls of
\* write_frame, the Sink was passed exactly the first N * floor(k / N)
\* submitted frames in order, and the k mod N frames left are still in the
\* open block, neither enqueued nor written.
C13_ExactShutdownResult ==
    ppc = "ended" =>
        LET k == Len(submitted)
        IN /\ WrittenExactly(BLOCK_SIZE * (k \div BLOCK_SIZE))
           /\ enqueued = k \div BLOCK_SIZE
           /\ Len(block) = k % BLOCK_SIZE
           /\ block = LastSubmitted(Len(block))
           /\ \A i \in 1..Len(block) : \A j \in 1..Len(sink) : block[i] # sink[j]

\* end() has returned after two full blocks and one more frame.
C13_Witness ==
    /\ ppc = "ended"
    /\ Len(submitted) = 2 * BLOCK_SIZE + 1
    /\ Len(sink) = 2 * BLOCK_SIZE
    /\ Len(block) = 1

\* C14 - No Sink activity after shutdown: when end() has returned the worker
\* thread has terminated, no write is in progress and none happens later.
C14_NoSinkActivityAfterEnd ==
    /\ [](ppc = "ended" => wpc = "exited")
    /\ [][ppc = "ended" => sink' = sink /\ wpc' = wpc]_vars

\* end() has returned after the worker wrote one block.
C14_Witness == ppc = "ended" /\ wpc = "exited" /\ Len(sink) = BLOCK_SIZE

\* C15 - Worker state flag in write_frame_background: the flag reads
\* Sleeping while the worker is blocked in recv after an empty dequeue, and
\* Running whenever the worker is dequeuing or writing.
C15_StateFlag ==
    /\ bpc = "recv" => bstate = "Sleeping"
    /\ bpc \in {"pop", "write"} => bstate = "Running"

\* C16 - Stale wake in write_frame_background: a Frame message received
\* while the queue is empty sends the worker back to the dequeue and never
\* out of its loop; an empty dequeue leads it to block on recv again; the
\* loop is left only on End or on a disconnected channel.
C16_StaleWake ==
    /\ [][(bpc = "recv" /\ bpc' # "recv" /\ bchan # <<>> /\ Head(bchan) = "Frame")
            => (bpc' = "pop" /\ bexit' = "")]_vars
    /\ [][(bpc = "pop" /\ bq = <<>> /\ bpc' # "pop") => bpc' = "sleep"]_vars
    /\ [][(bpc = "sleep" /\ bpc' # "sleep") => bpc' = "recv"]_vars
    /\ [](bpc = "exited" => bexit \in {"End", "Disconnected"})

\* A Frame message arrived when the queue was empty, and the worker has
\* looked at the queue and is blocked on recv again, still in its loop.
C16_Witness ==
    /\ bstale >= 1
    /\ bpc = "recv"
    /\ bchan = <<>>
    /\ bq = <<>>
    /\ bexit = ""

\* C17 - write_frame_background loses nothing at End: with one Frame message
\* after every enqueue and End sent last, when the worker has received End
\* the queue is empty and the frames written are exactly the enqueued ones,
\* once each, in enqueue order; before that, they are a prefix of them.
C17_NothingLostAtEnd ==
    /\ IsPrefix(bsink, bsubmitted)
    /\ bexit = "End" => bq = <<>> /\ bdata = <<>> /\ bsink = bsubmitted

\* End was received after three frames went through, one wake being stale.
C17_Witness == bexit = "End" /\ Len(bsink) = 3 /\ bstale >= 1

\* The Frame messages in the channel.
FramesInChan == Cardinality({i \in 1..Len(chan) : chan[i] = "Frame"})

\* C18 - The controller worker's empty-queue exit is unreachable: the Frame
\* messages sent and not yet followed by the worker's pop_front (those still
\* in the channel, plus the one received when the worker is about to pop)
\* never outnumber the queued blocks, and the worker never leaves its loop
\* through `None => break`.
C18_EmptyExitUnreachable ==
    /\ FramesInChan + (IF wpc \in {"pop_lock", "pop"} THEN 1 ELSE 0)
         <= Len(block_queue)
    /\ wexit # "Empty"

\* The worker holds the lock for the pop that follows the third Frame
\* message, and exactly one block is queued for it.
C18_Witness ==
    /\ wpc = "pop"
    /\ Len(block_queue) = 1
    /\ FramesInChan = 0
    /\ Len(sink) = 2 * BLOCK_SIZE

\* C19 - Frame conservation: before end() is called, the submitted frames
\* are the frames written, then the unwritten rest of the block being
\* written, then the queued blocks head to tail, then the open block.
C19_FrameConservation ==
    ppc \notin {"end_join", "ended", "dropped"} =>
        submitted = sink \o frame_list \o Flatten(block_queue) \o block

\* Frames in all four places at once.
C19_Witness ==
    /\ ppc = "idle"
    /\ sink # <<>>
    /\ frame_list # <<>>
    /\ Len(block_queue) = 2
    /\ block # <<>>

\* C20 - No leaked worker on disconnect: once the controller is dropped
\* without end(), the worker receives the Frame messages already sent,
\* writes every sealed block, sees the channel disconnected and terminates.
C20_NoLeakOnDisconnect ==
    (ppc = "dropped") ~>
        /\ wpc = "exited"
        /\ wexit = "Disconnected"
        /\ chan = <<>>
        /\ block_queue = <<>>
        /\ WrittenExactly(enqueued * BLOCK_SIZE)

\* The controller was dropped and the worker then ended on the disconnect,
\* two blocks written.
C20_Witness ==
    /\ ppc = "dropped"
    /\ wexit = "Disconnected"
    /\ Len(sink) = 2 * BLOCK_SIZE

====
